---- MODULE Spec2Model ----
(***************************************************************************)
(* The evaluation engine of ScientificCalculator (src/unnamed/part_001).   *)
(*                                                                         *)
(* display and history are sequences of one-character strings.  A number   *)
(* is a record [k, n]: k = "fin" with n the value in units of 1/Scale,     *)
(* k = "nan", k = "inf" with n the sign, or k = "null" for JavaScript      *)
(* null.  k = "unrep" marks a finite value outside the modelled set        *)
(* (more than FracDigits decimals, or larger than MaxVal): it is never     *)
(* stored, an event that would store it is not explored.  Arithmetic on    *)
(* the modelled set is exact; the relative error of binary doubles (about  *)
(* 1e-16) is below what fmt shows and is not modelled.  k = "big" is a     *)
(* whole number larger than MaxVal, given by its sign n and its decimal    *)
(* digits d: a typed or recalled number of at most 15 significant digits,  *)
(* or the product of the factorial loop.  It is stored and formatted;      *)
(* arithmetic on it is not modelled and gives a value outside the set.     *)
(* A session is followed for MaxEvents events.                             *)
(***************************************************************************)
EXTENDS Integers, Sequences, FiniteSets, TLC

\* ---------------------------------------------------------------- bounds
FracDigits == 1
MaxVal == 200
MaxEvents == 5
Digits == {"0", "2", "5"}

\* ------------------------------------------------------ program constants
MAX_LEN == 16

\* ---------------------------------------------------------------- numbers
RECURSIVE Pow10(_)
Pow10(i) == IF i <= 0 THEN 1 ELSE 10 * Pow10(i - 1)

Scale == Pow10(FracDigits)
MaxN == MaxVal * Scale

Fin(n) == [k |-> "fin", n |-> n]
NaN == [k |-> "nan", n |-> 0]
Inf(s) == [k |-> "inf", n |-> s]
null == [k |-> "null", n |-> 0]
Unrep == [k |-> "unrep", n |-> 0]
Big(sign, d) == [k |-> "big", n |-> sign, d |-> d]
Outside(x) == x.k \in {"unrep", "big"}

Abs(i) == IF i < 0 THEN -i ELSE i
Sgn(i) == IF i < 0 THEN -1 ELSE 1

\* a finite value given as num/den of scaled units, kept if it is in the set
Exact(num, den) ==
  LET u == Sgn(den) * num
      v == Abs(den)
  IN IF v # 0 /\ u % v = 0 /\ Abs(u \div v) <= MaxN THEN Fin(u \div v) ELSE Unrep

isFinite(x) == x.k \in {"fin", "unrep", "big"}

DigitChars == <<"0", "1", "2", "3", "4", "5", "6", "7", "8", "9">>
AllDigits == {DigitChars[i] : i \in 1..10}
DigitVal(c) == (CHOOSE i \in 1..10 : DigitChars[i] = c) - 1

Str(s) == [i \in 1..Len(s) |-> s[i]]
Includes(s, c) == \E i \in 1..Len(s) : s[i] = c
IndexOf(s, c) == IF Includes(s, c) THEN CHOOSE i \in 1..Len(s) : s[i] = c /\ \A j \in 1..(i - 1) : s[j] # c ELSE 0
AllIn(s, S) == \A i \in 1..Len(s) : s[i] \in S

\* d without its leading zeros, without its trailing zeros
StripLead(d) ==
  IF AllIn(d, {"0"}) THEN <<>>
  ELSE SubSeq(d, CHOOSE i \in 1..Len(d) : d[i] # "0" /\ \A j \in 1..(i - 1) : d[j] = "0", Len(d))

StripTrail(d) ==
  IF AllIn(d, {"0"}) THEN <<>>
  ELSE SubSeq(d, 1, CHOOSE i \in 1..Len(d) : d[i] # "0" /\ \A j \in (i + 1)..Len(d) : d[j] = "0")

RECURSIVE DigitsToInt(_)
DigitsToInt(d) == IF d = <<>> THEN 0 ELSE 10 * DigitsToInt(SubSeq(d, 1, Len(d) - 1)) + DigitVal(d[Len(d)])

RECURSIVE IntToDigits(_)
IntToDigits(i) == IF i < 10 THEN <<DigitChars[i + 1]>> ELSE IntToDigits(i \div 10) \o <<DigitChars[(i % 10) + 1]>>

Zeros(i) == IF i <= 0 THEN <<>> ELSE [j \in 1..i |-> "0"]

\* lexicographic d >= e on digit strings of equal length
RECURSIVE DigitsGeq(_, _)
DigitsGeq(d, e) ==
  IF d = <<>> THEN TRUE
  ELSE IF DigitVal(Head(d)) # DigitVal(Head(e)) THEN DigitVal(Head(d)) > DigitVal(Head(e))
  ELSE DigitsGeq(Tail(d), Tail(e))

\* the decimal digits at and above which a double rounds to Infinity (x 1e308)
InfDigits == <<"1", "7", "9", "7", "6", "9", "3", "1", "3", "4", "8", "6", "2", "3", "1", "5", "8">>
Pad(d, len) == IF Len(d) >= len THEN SubSeq(d, 1, len) ELSE d \o Zeros(len - Len(d))

\* sign * 0.d1d2... * 10^p for a digit string d without leading or trailing zeros
FromDigits(sign, d, p) ==
  IF d = <<>> THEN Fin(0)
  ELSE IF p > 309 \/ (p = 309 /\ DigitsGeq(Pad(d, Len(InfDigits)), InfDigits)) THEN Inf(sign)
  ELSE IF p < -323 THEN Fin(0)
  ELSE IF Len(d) <= p /\ (p > 7 \/ DigitsToInt(d) * Pow10(p - Len(d)) > MaxVal)
       THEN Big(sign, d \o Zeros(p - Len(d)))
  ELSE IF p > 7 \/ Len(d) - p > FracDigits THEN Unrep
  ELSE Exact(sign * DigitsToInt(d) * Pow10(p - Len(d) + FracDigits), 1)

\* Number(s) for the text after the sign has been taken off
UnsignedNumber(sign, s) ==
  LET ePos == IF Includes(s, "E") THEN IndexOf(s, "E") ELSE IndexOf(s, "e")
      mant == IF ePos = 0 THEN s ELSE SubSeq(s, 1, ePos - 1)
      expo == IF ePos = 0 THEN <<>> ELSE SubSeq(s, ePos + 1, Len(s))
      eNeg == expo # <<>> /\ Head(expo) = "-"
      eDig == IF expo # <<>> /\ Head(expo) \in {"-", "+"} THEN Tail(expo) ELSE expo
      dPos == IndexOf(mant, ".")
      int  == IF dPos = 0 THEN mant ELSE SubSeq(mant, 1, dPos - 1)
      frac == IF dPos = 0 THEN <<>> ELSE SubSeq(mant, dPos + 1, Len(mant))
      ok   == /\ AllIn(int, AllDigits) /\ AllIn(frac, AllDigits)
              /\ Len(int) + Len(frac) > 0
              /\ AllIn(eDig, AllDigits)
              /\ (ePos # 0 => eDig # <<>>)
      lead == StripLead(int \o frac)
      d    == StripTrail(lead)
      eLen == Len(StripLead(eDig))
      e    == IF eLen > 4 THEN 10000 ELSE DigitsToInt(StripLead(eDig))
      p    == Len(int) - (Len(int \o frac) - Len(lead)) + (IF eNeg THEN -e ELSE e)
  IN IF ok THEN FromDigits(sign, d, p) ELSE NaN

toNumber(s) ==
  IF s = <<>> THEN Fin(0)
  ELSE IF Head(s) = "-" THEN UnsignedNumber(-1, Tail(s))
  ELSE IF Head(s) = "+" THEN UnsignedNumber(1, Tail(s))
  ELSE UnsignedNumber(1, s)

\* Number.prototype.toString for a finite value of the modelled set
NumToString(n) ==
  LET a    == Abs(n)
      all  == IntToDigits(a)
      d    == StripTrail(all)
      p    == Len(all) - FracDigits
      k    == Len(d)
      sign == IF n < 0 THEN <<"-">> ELSE <<>>
      body == IF a = 0 THEN <<"0">>
              ELSE IF k <= p /\ p <= 21 THEN d \o Zeros(p - k)
              ELSE IF 0 < p /\ p <= 21 THEN SubSeq(d, 1, p) \o <<".">> \o SubSeq(d, p + 1, k)
              ELSE IF -6 < p /\ p <= 0 THEN <<"0", ".">> \o Zeros(-p) \o d
              ELSE <<Head(d)>> \o (IF k > 1 THEN <<".">> \o Tail(d) ELSE <<>>)
                   \o <<"e">> \o (IF p - 1 < 0 THEN <<"-">> ELSE <<"+">>) \o IntToDigits(Abs(p - 1))
  IN sign \o body

\* n.toExponential(8).replace("+", "")
ToExponential8(n) ==
  LET a    == Abs(n)
      all  == IntToDigits(a)
      p    == Len(all) - FracDigits
      nine == IF Len(all) <= 9 THEN Pad(all, 9)
              ELSE LET cut == DigitsToInt(SubSeq(all, 1, 9)) + (IF DigitVal(all[10]) >= 5 THEN 1 ELSE 0)
                   IN SubSeq(IntToDigits(cut), 1, 9)
      e    == IF a = 0 THEN 0 ELSE p - 1
      sign == IF n < 0 THEN <<"-">> ELSE <<>>
  IN sign \o <<Head(nine), ".">> \o Tail(nine) \o <<"e">>
       \o (IF e < 0 THEN <<"-">> ELSE <<>>) \o IntToDigits(Abs(e))

ErrorText == <<"E", "r", "r", "o", "r">>

\* Number(n.toFixed(12)): n rounded to 12 decimals
ToFixed12(n) ==
  LET u == Pow10(FracDigits - 12)
  IN Sgn(n) * ((2 * Abs(n) + u) \div (2 * u)) * u

\* stands for the text of a finite value outside the modelled set
UnrepText == <<"?">>

\* fmt of a whole number above MaxVal.  n.toString() is the digits up to 21
\* of them and the exponent form with "e+" from 1e21 up; the toFixed(12)
\* text of a whole number is as long as n.toString(); a text longer than
\* MAX_LEN falls to n.toExponential(8).replace("+", "")
BigText(x) ==
  LET d    == x.d
      sig  == StripTrail(d)
      sign == IF x.n < 0 THEN <<"-">> ELSE <<>>
      s    == IF Len(d) <= 21 THEN d
              ELSE <<Head(sig)>> \o (IF Len(sig) > 1 THEN <<".">> \o Tail(sig) ELSE <<>>)
                   \o <<"e", "+">> \o IntToDigits(Len(d) - 1)
      ten  == Pad(d, 10)
      cut  == DigitsToInt(SubSeq(ten, 1, 9)) + (IF DigitVal(ten[10]) >= 5 THEN 1 ELSE 0)
      up   == cut >= Pow10(9)
      nine == IF up THEN IntToDigits(Pow10(8)) ELSE IntToDigits(cut)
      e    == Len(d) - 1 + (IF up THEN 1 ELSE 0)
  IN IF Len(sign \o s) <= MAX_LEN THEN sign \o s
     ELSE sign \o <<Head(nine), ".">> \o Tail(nine) \o <<"e">> \o IntToDigits(e)

fmt(x) ==
  IF x.k = "unrep" THEN UnrepText
  ELSE IF x.k = "big" THEN BigText(x)
  ELSE IF ~isFinite(x) THEN ErrorText
  ELSE LET s == NumToString(x.n)
           t == NumToString(ToFixed12(x.n))
       IN IF Len(s) <= MAX_LEN THEN s
          ELSE IF Len(t) <= MAX_LEN THEN t
          ELSE ToExponential8(x.n)

\* fmt(Math.PI) and fmt(Math.E): both take the toFixed(12) branch of fmt
PiText == <<"3", ".", "1", "4", "1", "5", "9", "2", "6", "5", "3", "5", "9">>
EText == <<"2", ".", "7", "1", "8", "2", "8", "1", "8", "2", "8", "4", "5", "9">>

\* ------------------------------------------------------------- arithmetic
\* IEEE arithmetic on the modelled numbers; an operand outside the modelled
\* set gives a result outside it.
Err(code) == [k |-> code, n |-> 0]
ErrCodes == {"DIV0", "DOMAIN", "OVERFLOW"}
IsErr(r) == r.k \in ErrCodes

IsZero(x) == x.k = "fin" /\ x.n = 0
Negative(x) == (x.k = "fin" /\ x.n < 0) \/ (x.k = "inf" /\ x.n < 0)
IsInteger(x) == x.k = "fin" /\ x.n % Scale = 0
SignOf(x) == IF Negative(x) THEN -1 ELSE 1

Neg(x) == IF x.k \in {"fin", "inf"} THEN [x EXCEPT !.n = -x.n] ELSE x

Add(a, b) ==
  IF a.k = "nan" \/ b.k = "nan" THEN NaN
  ELSE IF Outside(a) \/ Outside(b) THEN Unrep
  ELSE IF a.k = "inf" /\ b.k = "inf" THEN (IF a.n = b.n THEN a ELSE NaN)
  ELSE IF a.k = "inf" THEN a
  ELSE IF b.k = "inf" THEN b
  ELSE Exact(a.n + b.n, 1)

Sub(a, b) == Add(a, Neg(b))

Mul(a, b) ==
  IF a.k = "nan" \/ b.k = "nan" THEN NaN
  ELSE IF Outside(a) \/ Outside(b) THEN Unrep
  ELSE IF a.k = "inf" \/ b.k = "inf"
       THEN (IF IsZero(a) \/ IsZero(b) THEN NaN ELSE Inf(SignOf(a) * SignOf(b)))
  ELSE Exact(a.n * b.n, Scale)

Div(a, b) ==
  IF a.k = "nan" \/ b.k = "nan" THEN NaN
  ELSE IF Outside(a) \/ Outside(b) THEN Unrep
  ELSE IF a.k = "inf" THEN (IF b.k = "inf" THEN NaN ELSE Inf(SignOf(a) * SignOf(b)))
  ELSE IF b.k = "inf" THEN Fin(0)
  ELSE IF b.n = 0 THEN (IF a.n = 0 THEN NaN ELSE Inf(SignOf(a)))
  ELSE Exact(a.n * Scale, b.n)

\* acc * a^i by repeated multiplication, given up once outside the modelled set
RECURSIVE PowAcc(_, _, _)
PowAcc(acc, a, i) ==
  IF i = 0 \/ acc.k # "fin" THEN acc ELSE PowAcc(Mul(acc, a), a, i - 1)

PowNat(a, i) ==
  IF a.k = "fin" /\ Abs(a.n) = Scale THEN Fin(IF a.n < 0 /\ i % 2 = 1 THEN -Scale ELSE Scale)
  ELSE IF a.k = "fin" /\ a.n = 0 /\ i > 0 THEN Fin(0)
  ELSE PowAcc(Fin(Scale), a, i)

\* the square root of a finite a >= 0 where it is a value of the modelled set
Sqrt(a) ==
  IF \E m \in 0..MaxN : m * m = a.n * Scale
  THEN Fin(CHOOSE m \in 0..MaxN : m * m = a.n * Scale) ELSE Unrep

MaxRoot == IF MaxN < 1000 THEN MaxN ELSE 1000
Cbrt(a) ==
  IF \E m \in 0..MaxRoot : m * m * m = Abs(a.n) * Scale * Scale
  THEN Fin(Sgn(a.n) * (CHOOSE m \in 0..MaxRoot : m * m * m = Abs(a.n) * Scale * Scale)) ELSE Unrep

\* Math.pow(a, b)
Pow(a, b) ==
  IF IsZero(b) THEN Fin(Scale)
  ELSE IF a.k = "nan" \/ b.k = "nan" THEN NaN
  ELSE IF a.k # "fin" \/ b.k # "fin" THEN Unrep
  ELSE IF IsInteger(b)
       THEN (IF b.n > 0 THEN PowNat(a, b.n \div Scale)
             ELSE IF a.n = 0 THEN Inf(1)
             ELSE Div(Fin(Scale), PowNat(a, (-b.n) \div Scale)))
  ELSE IF a.n < 0 THEN NaN
  ELSE IF a.n = 0 THEN (IF b.n > 0 THEN Fin(0) ELSE Inf(1))
  ELSE IF a.n = Scale THEN Fin(Scale)
  ELSE IF (2 * b.n) % Scale = 0
       THEN (IF b.n > 0 THEN PowNat(Sqrt(a), (2 * b.n) \div Scale)
             ELSE Div(Fin(Scale), PowNat(Sqrt(a), (-2 * b.n) \div Scale)))
  ELSE Unrep

\* r * i + carry for r held in limbs of six decimal digits, least significant
\* first: the limbs l of the product and the carry c out of the top limb,
\* computed half by half
LimbBase == 1000000
RECURSIVE MulLimbs(_, _, _)
MulLimbs(r, i, carry) ==
  IF Len(r) = 1
  THEN [l |-> <<(r[1] * i + carry) % LimbBase>>, c |-> (r[1] * i + carry) \div LimbBase]
  ELSE LET h  == Len(r) \div 2
           lo == MulLimbs(SubSeq(r, 1, h), i, carry)
           hi == MulLimbs(SubSeq(r, h + 1, Len(r)), i, lo.c)
       IN [l |-> lo.l \o hi.l, c |-> hi.c]

TimesInt(r, i) ==
  LET m == MulLimbs(r, i, 0) IN IF m.c = 0 THEN m.l ELSE Append(m.l, m.c)

\* the decimal digits of the limbs r, most significant first
LimbDigits(r) ==
  [p \in 1..(6 * Len(r)) |->
     DigitChars[((r[Len(r) - ((p - 1) \div 6)] \div Pow10(5 - ((p - 1) % 6))) % 10) + 1]]

\* for (let i = from; i <= x; i++) r *= i: the multiplications in the order
\* of the loop, the range from..x taken half by half; a product of more than
\* 309 digits is Infinity and stays so
RECURSIVE FactLoop(_, _, _)
FactLoop(r, from, x) ==
  IF from > x \/ 6 * (Len(r) - 1) > 309 THEN r
  ELSE IF from = x THEN TimesInt(r, from)
  ELSE LET mid == (from + x) \div 2 IN FactLoop(FactLoop(r, from, mid), mid + 1, x)

\* the product as a double: Infinity from Number.MAX_VALUE up
Factorial(x) ==
  LET d == StripLead(LimbDigits(FactLoop(<<1>>, 2, x)))
  IN IF Len(d) > 309 \/ (Len(d) = 309 /\ DigitsGeq(Pad(d, Len(InfDigits)), InfDigits)) THEN Inf(1)
     ELSE IF Len(d) <= 7 /\ DigitsToInt(d) <= MaxVal THEN Fin(DigitsToInt(d) * Scale)
     ELSE Big(1, d)

\* Math.exp, Math.log, Math.log10 and 10^x where the result is a short decimal
Exp(x) ==
  IF x.k = "nan" THEN NaN
  ELSE IF x.k = "inf" THEN (IF x.n > 0 THEN x ELSE Fin(0))
  ELSE IF x.k = "fin" /\ x.n = 0 THEN Fin(Scale)
  ELSE IF x.k = "fin" /\ x.n > 709 * Scale THEN Inf(1)
  ELSE Unrep

Log(x) ==
  IF x.k = "nan" THEN NaN
  ELSE IF x.k = "inf" THEN x
  ELSE IF x.k = "fin" /\ x.n = Scale THEN Fin(0)
  ELSE Unrep

Log10(x) ==
  IF x.k = "nan" THEN NaN
  ELSE IF x.k = "inf" THEN x
  ELSE IF x.k = "fin" /\ \E i \in -FracDigits..7 : Pow10(i + FracDigits) = x.n
       THEN Fin(Scale * (CHOOSE i \in -FracDigits..7 : Pow10(i + FracDigits) = x.n))
  ELSE Unrep

\* Math.sin, cos, tan, asin, acos, atan with the angle conversion of inAngle and
\* outAngle, at the arguments where fmt shows a short decimal; Deg(x) is the
\* whole number of degrees of x in 0..359.
Half == Exact(Scale, 2)
Deg(x) == (x.n \div Scale) % 360
Whole(i) == Exact(i * Scale, 1)

inAngle(x, angleMode) == [x |-> x, deg |-> angleMode = "DEG" /\ IsInteger(x)]

Sin(t) ==
  IF t.x.k # "fin" THEN NaN
  ELSE IF t.x.n = 0 THEN Fin(0)
  ELSE IF ~t.deg THEN Unrep
  ELSE IF Deg(t.x) \in {0, 180} THEN Fin(0)
  ELSE IF Deg(t.x) \in {30, 150} THEN Half
  ELSE IF Deg(t.x) \in {210, 330} THEN Neg(Half)
  ELSE IF Deg(t.x) = 90 THEN Fin(Scale)
  ELSE IF Deg(t.x) = 270 THEN Fin(-Scale)
  ELSE Unrep

Cos(t) ==
  IF t.x.k # "fin" THEN NaN
  ELSE IF t.x.n = 0 THEN Fin(Scale)
  ELSE IF ~t.deg THEN Unrep
  ELSE IF Deg(t.x) \in {90, 270} THEN Fin(0)
  ELSE IF Deg(t.x) \in {60, 300} THEN Half
  ELSE IF Deg(t.x) \in {120, 240} THEN Neg(Half)
  ELSE IF Deg(t.x) = 0 THEN Fin(Scale)
  ELSE IF Deg(t.x) = 180 THEN Fin(-Scale)
  ELSE Unrep

Tan(t) ==
  IF t.x.k # "fin" THEN NaN
  ELSE IF t.x.n = 0 THEN Fin(0)
  ELSE IF ~t.deg THEN Unrep
  ELSE IF Deg(t.x) \in {0, 180} THEN Fin(0)
  ELSE IF Deg(t.x) \in {45, 225} THEN Fin(Scale)
  ELSE IF Deg(t.x) \in {135, 315} THEN Fin(-Scale)
  ELSE Unrep

\* outAngle(Math.asin(x)) for x in [-1, 1] or NaN
Asin(x, angleMode) ==
  IF x.k # "fin" THEN NaN
  ELSE IF x.n = 0 THEN Fin(0)
  ELSE IF angleMode # "DEG" THEN Unrep
  ELSE IF x = Half THEN Whole(30)
  ELSE IF x = Neg(Half) THEN Whole(-30)
  ELSE IF x.n = Scale THEN Whole(90)
  ELSE IF x.n = -Scale THEN Whole(-90)
  ELSE Unrep

Acos(x, angleMode) ==
  IF x.k # "fin" THEN NaN
  ELSE IF x.n = Scale THEN Fin(0)
  ELSE IF angleMode # "DEG" THEN Unrep
  ELSE IF x = Half THEN Whole(60)
  ELSE IF x.n = 0 THEN Whole(90)
  ELSE IF x = Neg(Half) THEN Whole(120)
  ELSE IF x.n = -Scale THEN Whole(180)
  ELSE Unrep

Atan(x, angleMode) ==
  IF x.k = "nan" THEN NaN
  ELSE IF x.k = "inf" THEN (IF angleMode = "DEG" THEN Whole(90 * x.n) ELSE Unrep)
  ELSE IF x.k # "fin" THEN Unrep
  ELSE IF x.n = 0 THEN Fin(0)
  ELSE IF angleMode # "DEG" THEN Unrep
  ELSE IF x.n = Scale THEN Whole(45)
  ELSE IF x.n = -Scale THEN Whole(-45)
  ELSE Unrep

\* ------------------------------------------------------------------ state
\* lastEvent is the event delivered last, delivered the number of events so far,
\* onKey the render whose values the registered keydown listener closes over
VARIABLES display, prev, op, lastOperand, overwrite, error, history,
          angleMode, inverse, memory, enteringExp, lastEvent, delivered, onKey

state == <<display, prev, op, lastOperand, overwrite, error, history,
           angleMode, inverse, memory, enteringExp>>
vars == <<display, prev, op, lastOperand, overwrite, error, history,
          angleMode, inverse, memory, enteringExp, lastEvent, delivered, onKey>>

\* JavaScript null for op and error
NONE == "null"

\* the values of one render, which the handlers created in it close over
Render == [display |-> display, prev |-> prev, op |-> op, lastOperand |-> lastOperand,
           overwrite |-> overwrite, error |-> error, history |-> history,
           angleMode |-> angleMode, inverse |-> inverse, memory |-> memory,
           enteringExp |-> enteringExp]

\* useState initial values
InitialState == [display |-> <<"0">>, prev |-> null, op |-> NONE, lastOperand |-> null,
                 overwrite |-> FALSE, error |-> NONE, history |-> <<>>,
                 angleMode |-> "DEG", inverse |-> FALSE, memory |-> null,
                 enteringExp |-> FALSE]

Operators == {"+", "-", "*", "/", "^"}
\* the label of an operator key: "minus" is U+2212, "times" U+00D7, "divide" U+00F7
Label(o) == CASE o = "+" -> "+" [] o = "-" -> "minus" [] o = "*" -> "times"
              [] o = "/" -> "divide" [] o = "^" -> "^"

UnaryNames == {"square", "cube", "sqrt", "cbrt", "recip", "abs", "percent", "fact",
               "exp", "exp10", "ln", "log10", "sin", "cos", "tan", "asin", "acos", "atan"}

\* errorMessage without the "DOMAIN" case
errorMessage_noDomainCase(code) ==
  CASE code = "DIV0" -> "Cannot divide by 0"
    [] code = "OVERFLOW" -> "Overflow"
    [] OTHER -> "Error"

errorMessage(code) ==
  CASE code = "DIV0" -> "Cannot divide by 0"
    [] code = "DOMAIN" -> "Math domain error"
    [] code = "OVERFLOW" -> "Overflow"
    [] OTHER -> "Error"

\* commitResult without setOp(null) on an error
commitResult_keepsOperator(s, value) ==
  IF IsErr(value)
  THEN [s EXCEPT !.error = errorMessage(value.k), !.display = <<"0">>, !.prev = null,
                 !.overwrite = TRUE, !.history = <<>>]
  ELSE [s EXCEPT !.display = fmt(value), !.overwrite = TRUE]

\* s is the state the setters act on
commitResult(s, value) ==
  IF IsErr(value)
  THEN [s EXCEPT !.error = errorMessage(value.k), !.display = <<"0">>, !.prev = null,
                 !.op = NONE, !.overwrite = TRUE, !.history = <<>>]
  ELSE [s EXCEPT !.display = fmt(value), !.overwrite = TRUE]

\* ------------------------------------------------------------------ input
\* Each handler takes the state s its setters and updaters act on and the
\* render c whose values it closed over, and gives the state after the event.
\* inputDigit that never looks at overwrite
inputDigit_noOverwrite(s, c, d) ==
  IF c.error # NONE THEN s
  ELSE IF s.display = <<"0">> THEN [s EXCEPT !.display = <<d>>]
  ELSE IF Len(s.display) >= MAX_LEN THEN s
  ELSE [s EXCEPT !.display = s.display \o <<d>>]

inputDigit(s, c, d) ==
  IF c.error # NONE THEN s
  ELSE IF c.overwrite THEN [s EXCEPT !.overwrite = FALSE, !.enteringExp = FALSE, !.display = <<d>>]
  ELSE IF s.display = <<"0">> THEN [s EXCEPT !.display = <<d>>]
  ELSE IF Len(s.display) >= MAX_LEN THEN s
  ELSE [s EXCEPT !.display = s.display \o <<d>>]

\* inputDot that does not look for a point in the mantissa
inputDot_noMantissaTest(s, c) ==
  IF c.error # NONE THEN s
  ELSE IF c.overwrite THEN [s EXCEPT !.overwrite = FALSE, !.enteringExp = FALSE, !.display = <<"0", ".">>]
  ELSE IF Includes(s.display, "E")
       THEN LET e == IndexOf(s.display, "E")
                mantissa == SubSeq(s.display, 1, e - 1)
                rest == SubSeq(s.display, e + 1, Len(s.display))
                exponent == IF Includes(rest, "E") THEN SubSeq(rest, 1, IndexOf(rest, "E") - 1) ELSE rest
            IN [s EXCEPT !.display = mantissa \o <<".">> \o (IF exponent # <<>> THEN <<"E">> \o exponent ELSE <<>>)]
  ELSE IF Includes(s.display, ".") THEN s
  ELSE [s EXCEPT !.display = s.display \o <<".">>]

inputDot(s, c) ==
  IF c.error # NONE THEN s
  ELSE IF c.overwrite THEN [s EXCEPT !.overwrite = FALSE, !.enteringExp = FALSE, !.display = <<"0", ".">>]
  ELSE IF Includes(s.display, "E")
       THEN LET e == IndexOf(s.display, "E")
                mantissa == SubSeq(s.display, 1, e - 1)
                rest == SubSeq(s.display, e + 1, Len(s.display))
                \* split("E") keeps the text up to a second "E"
                exponent == IF Includes(rest, "E") THEN SubSeq(rest, 1, IndexOf(rest, "E") - 1) ELSE rest
            IN IF ~Includes(mantissa, ".")
               THEN [s EXCEPT !.display = mantissa \o <<".">> \o (IF exponent # <<>> THEN <<"E">> \o exponent ELSE <<>>)]
               ELSE s
  ELSE IF Includes(s.display, ".") THEN s
  ELSE [s EXCEPT !.display = s.display \o <<".">>]

toggleSign(s, c) ==
  IF c.error # NONE THEN s
  ELSE IF Head(s.display) = "-" THEN [s EXCEPT !.display = Tail(s.display)]
  ELSE IF s.display = <<"0">> THEN s
  ELSE [s EXCEPT !.display = <<"-">> \o s.display]

\* clearAll without setLastOperand(null)
clearAll_keepsLastOperand(s) ==
  [s EXCEPT !.display = <<"0">>, !.prev = null, !.op = NONE,
            !.overwrite = FALSE, !.error = NONE, !.history = <<>>, !.enteringExp = FALSE]

\* clearAll without setError(null)
clearAll_keepsError(s) ==
  [s EXCEPT !.display = <<"0">>, !.prev = null, !.op = NONE, !.lastOperand = null,
            !.overwrite = FALSE, !.history = <<>>, !.enteringExp = FALSE]

clearAll(s) ==
  [s EXCEPT !.display = <<"0">>, !.prev = null, !.op = NONE, !.lastOperand = null,
            !.overwrite = FALSE, !.error = NONE, !.history = <<>>, !.enteringExp = FALSE]

\* backspace that calls setOverwrite(false)
backspace_clearsOverwrite(s, c) ==
  IF c.error # NONE THEN s
  ELSE IF c.overwrite THEN [s EXCEPT !.display = <<"0">>, !.overwrite = FALSE]
  ELSE IF Len(s.display) <= 1 \/ (Len(s.display) = 2 /\ Head(s.display) = "-") THEN [s EXCEPT !.display = <<"0">>]
  ELSE [s EXCEPT !.display = SubSeq(s.display, 1, Len(s.display) - 1)]

backspace(s, c) ==
  IF c.error # NONE THEN s
  ELSE IF c.overwrite THEN [s EXCEPT !.display = <<"0">>]
  ELSE IF Len(s.display) <= 1 \/ (Len(s.display) = 2 /\ Head(s.display) = "-") THEN [s EXCEPT !.display = <<"0">>]
  ELSE [s EXCEPT !.display = SubSeq(s.display, 1, Len(s.display) - 1)]

insertConstant(s, c, name) ==
  IF c.error # NONE THEN s
  ELSE [s EXCEPT !.display = IF name = "PI" THEN PiText ELSE EText, !.overwrite = TRUE]

pressExp(s, c) ==
  IF c.error # NONE THEN s
  ELSE IF Includes(s.display, "E") THEN s
  ELSE IF c.overwrite \/ s.display = <<"0">>
       THEN [s EXCEPT !.overwrite = FALSE, !.enteringExp = TRUE, !.display = <<"1", "E">>]
  ELSE [s EXCEPT !.enteringExp = TRUE, !.display = s.display \o <<"E">>]

\* ------------------------------------------------------- binary operators
\* evaluate without the "+0" case of the repeated equals
evaluate_noRepeatCase(a, b, operator) ==
  CASE operator = "+" -> Add(a, b)
    [] operator = "-" -> Sub(a, b)
    [] operator = "*" -> Mul(a, b)
    [] operator = "/" -> IF IsZero(b) THEN Err("DIV0") ELSE Div(a, b)
    [] operator = "^" -> LET out == Pow(a, b) IN IF ~isFinite(out) THEN Err("OVERFLOW") ELSE out
    [] OTHER -> b

\* evaluate without the b === 0 test of the division
evaluate_noZeroTest(a, b, operator) ==
  CASE operator = "+" -> Add(a, b)
    [] operator = "-" -> Sub(a, b)
    [] operator = "*" -> Mul(a, b)
    [] operator = "/" -> Div(a, b)
    [] operator = "^" -> LET out == Pow(a, b) IN IF ~isFinite(out) THEN Err("OVERFLOW") ELSE out
    [] operator = "+0" -> Add(a, b)
    [] OTHER -> b

evaluate(a, b, operator) ==
  CASE operator = "+" -> Add(a, b)
    [] operator = "-" -> Sub(a, b)
    [] operator = "*" -> Mul(a, b)
    [] operator = "/" -> IF IsZero(b) THEN Err("DIV0") ELSE Div(a, b)
    [] operator = "^" -> LET out == Pow(a, b) IN IF ~isFinite(out) THEN Err("OVERFLOW") ELSE out
    [] operator = "+0" -> Add(a, b)
    [] OTHER -> b

\* h.replace(/[\+\-<times><divide>\^]$/, label): the class holds the ASCII
\* hyphen, not the U+2212 of the subtract key's label
replaceLabel(h, label) ==
  IF h # <<>> /\ h[Len(h)] \in {"+", "-", "times", "divide", "^"}
  THEN SubSeq(h, 1, Len(h) - 1) \o <<label>> ELSE h

\* chooseOp that evaluates with the operator just chosen
chooseOp_newOperator(s, c, nextOp, label) ==
  LET cur == toNumber(c.display)
      r == evaluate(c.prev, cur, nextOp)
  IN IF c.error # NONE THEN s
     ELSE IF c.prev = null
          THEN [s EXCEPT !.prev = cur, !.op = nextOp, !.overwrite = TRUE,
                         !.history = fmt(cur) \o <<" ", label>>]
     ELSE IF c.overwrite
          THEN [s EXCEPT !.op = nextOp, !.history = replaceLabel(s.history, label)]
     ELSE IF IsErr(r) THEN commitResult(s, r)
     ELSE [s EXCEPT !.prev = r, !.display = fmt(r), !.op = nextOp, !.overwrite = TRUE,
                    !.history = fmt(r) \o <<" ", label>>]

\* chooseOp without the operator-replacement branch
chooseOp_noReplace(s, c, nextOp, label) ==
  LET cur == toNumber(c.display)
      r == evaluate(c.prev, cur, c.op)
  IN IF c.error # NONE THEN s
     ELSE IF c.prev = null
          THEN [s EXCEPT !.prev = cur, !.op = nextOp, !.overwrite = TRUE,
                         !.history = fmt(cur) \o <<" ", label>>]
     ELSE IF IsErr(r) THEN commitResult(s, r)
     ELSE [s EXCEPT !.prev = r, !.display = fmt(r), !.op = nextOp, !.overwrite = TRUE,
                    !.history = fmt(r) \o <<" ", label>>]

chooseOp(s, c, nextOp, label) ==
  LET cur == toNumber(c.display)
      r == evaluate(c.prev, cur, c.op)
  IN IF c.error # NONE THEN s
     ELSE IF c.prev = null
          THEN [s EXCEPT !.prev = cur, !.op = nextOp, !.overwrite = TRUE,
                         !.history = fmt(cur) \o <<" ", label>>]
     ELSE IF c.overwrite
          THEN [s EXCEPT !.op = nextOp, !.history = replaceLabel(s.history, label)]
     ELSE IF IsErr(r) THEN commitResult(s, r)
     ELSE [s EXCEPT !.prev = r, !.display = fmt(r), !.op = nextOp, !.overwrite = TRUE,
                    !.history = fmt(r) \o <<" ", label>>]

\* equals that calls setPrev(null) instead of setPrev(r)
equals_clearsAccumulator(s, c) ==
  LET a == IF c.prev = null THEN Fin(0) ELSE c.prev
      b == toNumber(c.display)
      r == evaluate(a, b, c.op)
      again == evaluate(toNumber(c.display), c.lastOperand, "+0")
  IN IF c.error # NONE THEN s
     ELSE IF c.op = NONE
          THEN (IF c.lastOperand # null
                THEN (IF IsErr(again) THEN commitResult(s, again)
                      ELSE [s EXCEPT !.display = fmt(again), !.overwrite = TRUE])
                ELSE s)
     ELSE IF IsErr(r) THEN commitResult(s, r)
     ELSE [s EXCEPT !.display = fmt(r), !.prev = null, !.lastOperand = b, !.op = NONE,
                    !.overwrite = TRUE, !.history = <<>>]

equals(s, c) ==
  LET a == IF c.prev = null THEN Fin(0) ELSE c.prev
      b == toNumber(c.display)
      r == evaluate(a, b, c.op)
      again == evaluate(toNumber(c.display), c.lastOperand, "+0")
  IN IF c.error # NONE THEN s
     ELSE IF c.op = NONE
          THEN (IF c.lastOperand # null
                THEN (IF IsErr(again) THEN commitResult(s, again)
                      ELSE [s EXCEPT !.display = fmt(again), !.overwrite = TRUE])
                ELSE s)
     ELSE IF IsErr(r) THEN commitResult(s, r)
     ELSE [s EXCEPT !.display = fmt(r), !.prev = r, !.lastOperand = b, !.op = NONE,
                    !.overwrite = TRUE, !.history = <<>>]

\* ------------------------------------------------------------------ unary
\* x < 0 and x <= 0 as JavaScript compares: false for NaN
Below(x, i) == (x.k = "fin" /\ x.n < i * Scale) \/ (x.k = "inf" /\ x.n < 0)
Above(x, i) == (x.k = "fin" /\ x.n > i * Scale) \/ (x.k = "inf" /\ x.n > 0)

\* percent that ignores the accumulator
percent_ofOperandOnly(x, c) ==
  IF x.k = "fin" THEN Exact(x.n, 100) ELSE Div(x, Fin(100 * Scale))

\* case "percent": prev * (x / 100) if prev and op exist, else x / 100
percent(x, c) ==
  IF c.prev # null /\ c.op # NONE
  THEN (IF c.prev.k = "fin" /\ x.k = "fin" THEN Exact(c.prev.n * x.n, 100 * Scale)
        ELSE Mul(c.prev, Div(x, Fin(100 * Scale))))
  ELSE IF x.k = "fin" THEN Exact(x.n, 100) ELSE Div(x, Fin(100 * Scale))

\* the x > 170 test moved to x > 171
fact_overflowAbove171(x) ==
  IF x.k # "fin" \/ Below(x, 0) \/ ~IsInteger(x) THEN Err("DOMAIN")
  ELSE IF Above(x, 171) THEN Err("OVERFLOW")
  ELSE Factorial(x.n \div Scale)

\* case "fact"
fact(x) ==
  IF x.k # "fin" \/ Below(x, 0) \/ ~IsInteger(x) THEN Err("DOMAIN")
  ELSE IF Above(x, 170) THEN Err("OVERFLOW")
  ELSE Factorial(x.n \div Scale)

unaryOut(fnName, x, c) ==
  CASE fnName = "square" -> Mul(x, x)
    [] fnName = "cube" -> Mul(Mul(x, x), x)
    [] fnName = "sqrt" -> IF Below(x, 0) THEN Err("DOMAIN") ELSE IF x.k = "fin" THEN Sqrt(x) ELSE x
    [] fnName = "cbrt" -> IF x.k = "fin" THEN Cbrt(x) ELSE x
    [] fnName = "recip" -> IF IsZero(x) THEN Err("DIV0") ELSE Div(Fin(Scale), x)
    [] fnName = "abs" -> IF Negative(x) THEN Neg(x) ELSE x
    [] fnName = "percent" -> percent(x, c)
    [] fnName = "fact" -> fact(x)
    [] fnName = "exp" -> Exp(x)
    [] fnName = "exp10" -> IF Above(x, 308) THEN Inf(1) ELSE Pow(Fin(10 * Scale), x)
    [] fnName = "ln" -> IF Below(x, 0) \/ IsZero(x) THEN Err("DOMAIN") ELSE Log(x)
    [] fnName = "log10" -> IF Below(x, 0) \/ IsZero(x) THEN Err("DOMAIN") ELSE Log10(x)
    [] fnName = "sin" -> Sin(inAngle(x, c.angleMode))
    [] fnName = "cos" -> Cos(inAngle(x, c.angleMode))
    [] fnName = "tan" -> LET val == Tan(inAngle(x, c.angleMode)) IN IF ~isFinite(val) THEN Err("DOMAIN") ELSE val
    [] fnName = "asin" -> IF Below(x, -1) \/ Above(x, 1) THEN Err("DOMAIN") ELSE Asin(x, c.angleMode)
    [] fnName = "acos" -> IF Below(x, -1) \/ Above(x, 1) THEN Err("DOMAIN") ELSE Acos(x, c.angleMode)
    [] fnName = "atan" -> Atan(x, c.angleMode)
    [] OTHER -> x

applyUnary(s, c, fnName) ==
  LET x == toNumber(c.display)
      out == IF Outside(x) THEN Unrep ELSE unaryOut(fnName, x, c)
  IN IF c.error # NONE THEN s ELSE commitResult(s, out)

\* ----------------------------------------------------------------- memory
memClear(s) == [s EXCEPT !.memory = null]
memRecall(s, c) ==
  IF c.memory = null THEN s
  ELSE [s EXCEPT !.display = fmt(c.memory), !.overwrite = TRUE]
memStore(s, c) == [s EXCEPT !.memory = toNumber(c.display)]
memPlus(s, c) ==
  [s EXCEPT !.memory = Add(IF s.memory = null THEN Fin(0) ELSE s.memory, toNumber(c.display))]
\* memMinus with the operands the other way round
memMinus_fromDisplay(s, c) ==
  [s EXCEPT !.memory = Sub(toNumber(c.display), IF s.memory = null THEN Fin(0) ELSE s.memory)]
memMinus(s, c) ==
  [s EXCEPT !.memory = Sub(IF s.memory = null THEN Fin(0) ELSE s.memory, toNumber(c.display))]

\* the two toggles of the header row
toggleAngleMode(s) == [s EXCEPT !.angleMode = IF s.angleMode = "DEG" THEN "RAD" ELSE "DEG"]
toggleInverse(s) == [s EXCEPT !.inverse = ~s.inverse]

\* ----------------------------------------------------------------- events
\* the function a key of the scientific rows applies, by the INV toggle
UnaryKeys == {"sin", "cos", "tan", "ln", "log10", "square", "sqrt", "recip", "fact", "abs", "percent"}
keyFunction(key, inv) ==
  CASE key = "sin" -> IF inv THEN "asin" ELSE "sin"
    [] key = "cos" -> IF inv THEN "acos" ELSE "cos"
    [] key = "tan" -> IF inv THEN "atan" ELSE "tan"
    [] key = "ln" -> IF inv THEN "exp" ELSE "ln"
    [] key = "log10" -> IF inv THEN "exp10" ELSE "log10"
    [] OTHER -> key

Event(type, arg) == [type |-> type, arg |-> arg]

\* every number of the state n is a value of the modelled set
Modelled(n) ==
  /\ n.prev # Unrep /\ n.lastOperand # Unrep /\ n.memory # Unrep
  /\ n.display # UnrepText

\* the dependency list of the keyboard effect: the listener is registered
\* again after a render in which one of these values has changed
Deps(r) == <<r.display, r.prev, r.op, r.inverse, r.angleMode, r.error>>

\* the event takes the engine to state n
Apply(n, ev) ==
  /\ delivered < MaxEvents
  /\ Modelled(n)
  /\ display' = n.display /\ prev' = n.prev /\ op' = n.op
  /\ lastOperand' = n.lastOperand /\ overwrite' = n.overwrite /\ error' = n.error
  /\ history' = n.history /\ angleMode' = n.angleMode /\ inverse' = n.inverse
  /\ memory' = n.memory /\ enteringExp' = n.enteringExp
  /\ lastEvent' = ev
  /\ delivered' = delivered + 1
  /\ onKey' = IF Deps(n) # Deps(Render) THEN n ELSE onKey

Init ==
  /\ display = InitialState.display /\ prev = InitialState.prev /\ op = InitialState.op
  /\ lastOperand = InitialState.lastOperand /\ overwrite = InitialState.overwrite
  /\ error = InitialState.error /\ history = InitialState.history
  /\ angleMode = InitialState.angleMode /\ inverse = InitialState.inverse
  /\ memory = InitialState.memory /\ enteringExp = InitialState.enteringExp
  /\ lastEvent = Event("Start", "")
  /\ delivered = 0
  /\ onKey = Render

\* an event delivered by its button: the handler of the current render
Digit(d) == Apply(inputDigit(Render, Render, d), Event("Digit", d))
Decimal == Apply(inputDot(Render, Render), Event("Decimal", ""))
ToggleSign == Apply(toggleSign(Render, Render), Event("ToggleSign", ""))
Backspace == Apply(backspace(Render, Render), Event("Backspace", ""))
Clear == Apply(clearAll(Render), Event("Clear", ""))
PressExponent == Apply(pressExp(Render, Render), Event("PressExponent", ""))
ChooseOperator(o) == Apply(chooseOp(Render, Render, o, Label(o)), Event("ChooseOperator", o))
Equals == Apply(equals(Render, Render), Event("Equals", ""))
ApplyUnary(key) ==
  Apply(applyUnary(Render, Render, keyFunction(key, inverse)), Event("ApplyUnary", keyFunction(key, inverse)))
InsertConstant(name) == Apply(insertConstant(Render, Render, name), Event("InsertConstant", name))
MemoryClear == Apply(memClear(Render), Event("MemoryClear", ""))
MemoryRecall == Apply(memRecall(Render, Render), Event("MemoryRecall", ""))
MemoryStore == Apply(memStore(Render, Render), Event("MemoryStore", ""))
MemoryAdd == Apply(memPlus(Render, Render), Event("MemoryAdd", ""))
MemorySubtract == Apply(memMinus(Render, Render), Event("MemorySubtract", ""))
ToggleAngleMode == Apply(toggleAngleMode(Render), Event("ToggleAngleMode", ""))
ToggleInverse == Apply(toggleInverse(Render), Event("ToggleInverse", ""))

Next ==
  \/ \E d \in Digits : Digit(d)
  \/ Decimal
  \/ ToggleSign
  \/ Backspace
  \/ Clear
  \/ PressExponent
  \/ \E o \in Operators : ChooseOperator(o)
  \/ Equals
  \/ \E key \in UnaryKeys : ApplyUnary(key)
  \/ \E name \in {"PI", "E"} : InsertConstant(name)
  \/ MemoryClear
  \/ MemoryRecall
  \/ MemoryStore
  \/ MemoryAdd
  \/ MemorySubtract
  \/ ToggleAngleMode
  \/ ToggleInverse

Spec == Init /\ [][Next]_vars

\* the keys the keydown listener answers to
Keys ==
  Digits \cup {".", "Backspace", "Escape", "Enter", "=", "e", "p", "r", "i", "!",
               "l", "g", "s", "c", "t", "%", "^", "+", "-", "*", "/"}

\* the function a key applies: the three trigonometric keys go by the INV
\* toggle of the render the listener was created in, the others do not
keyUnary(k, inv) ==
  CASE k = "!" -> "fact"
    [] k = "l" -> "ln"
    [] k = "g" -> "log10"
    [] k = "s" -> IF inv THEN "asin" ELSE "sin"
    [] k = "c" -> IF inv THEN "acos" ELSE "cos"
    [] k = "t" -> IF inv THEN "atan" ELSE "tan"
    [] k = "%" -> "percent"

\* the keydown listener created in render c, called with key k in state s
keyDown(s, c, k) ==
  CASE k \in AllDigits -> inputDigit(s, c, k)
    [] k = "." -> inputDot(s, c)
    [] k = "Backspace" -> backspace(s, c)
    [] k = "Escape" -> clearAll(s)
    [] k \in {"Enter", "="} -> equals(s, c)
    [] k \in {"e", "p"} -> insertConstant(s, c, IF k = "e" THEN "E" ELSE "PI")
    [] k = "r" -> toggleAngleMode(s)
    [] k = "i" -> toggleInverse(s)
    [] k \in {"!", "l", "g", "s", "c", "t", "%"} -> applyUnary(s, c, keyUnary(k, c.inverse))
    [] k \in {"^", "+", "-", "*", "/"} -> chooseOp(s, c, k, Label(k))
    [] OTHER -> s

\* an event delivered by its key: the listener registered last
KeyDown(k) == Apply(keyDown(Render, onKey, k), Event("Key", k))

NextKeys == \E k \in Keys : KeyDown(k)

SpecKeys == Init /\ [][NextKeys]_vars

\* the factorial key on a typed value: a whole number up to MaxVal or one with
\* a fraction, with either sign
FactInputs ==
  {IntToDigits(i) : i \in 0..MaxVal} \cup {IntToDigits(i) \o <<".", "5">> : i \in 0..2}

InitFact ==
  /\ display \in FactInputs
  /\ prev = InitialState.prev /\ op = InitialState.op
  /\ lastOperand = InitialState.lastOperand /\ overwrite = InitialState.overwrite
  /\ error = InitialState.error /\ history = InitialState.history
  /\ angleMode = InitialState.angleMode /\ inverse = InitialState.inverse
  /\ memory = InitialState.memory /\ enteringExp = InitialState.enteringExp
  /\ lastEvent = Event("Start", "")
  /\ delivered = 0
  /\ onKey = Render

NextFact ==
  \/ ToggleSign
  \/ ApplyUnary("fact")

SpecFact == InitFact /\ [][NextFact]_vars

\* ----------------------------------------------------------------- claims
DivideMessage == "Cannot divide by 0"
InitialValue(field) == InitialState[field]

\* C1: while the error state is non-null, every event other than Clear leaves
\* the whole calculator state unchanged, memory, angle mode and inverse toggle
\* included.
C1_ErrorBlocksAllButClear ==
  [][(error # NONE /\ lastEvent'.type # "Clear") => UNCHANGED state]_vars

\* C2: in every reachable state, a non-null error state means display is "0".
C2_ErrorPinsDisplay == error # NONE => display = <<"0">>

\* C3: a non-null error state keeps its kind across every event other than
\* Clear, and Clear sets it back to null.
C3_ErrorKeptUntilClear ==
  [][error # NONE =>
       IF lastEvent'.type = "Clear" THEN error' = NONE ELSE error' = error]_vars

\* an event other than Clear has been delivered in the error state
C3_Witness == error # NONE /\ lastEvent.type \in {"Digit", "MemoryRecall", "ToggleSign"}

\* C4: when Equals or ChooseOperator evaluates a pending division whose second
\* operand, the displayed value, is 0, the engine enters the error state with
\* "Cannot divide by 0"; a Digit delivered in that state changes nothing and
\* Clear returns display to "0" with no error.
C4_DivisionByZero ==
  [][/\ (/\ error = NONE /\ op = "/" /\ IsZero(toNumber(display))
         /\ \/ lastEvent'.type = "Equals"
            \/ lastEvent'.type = "ChooseOperator" /\ ~overwrite)
        => (error' = DivideMessage /\ display' = <<"0">>)
     /\ (error = DivideMessage /\ lastEvent'.type = "Digit") => UNCHANGED state
     /\ (error = DivideMessage /\ lastEvent'.type = "Clear")
        => (display' = <<"0">> /\ error' = NONE)]_vars

\* Equals has evaluated a division by zero: only "/" makes Equals fail so
C4_Witness == lastEvent.type = "Equals" /\ error = DivideMessage

\* C5: ChooseOperator with an operator pending and a typed operand (overwrite
\* false) evaluates accumulator old-operator displayed-value at once, shows
\* the result, keeps it as the accumulator and adopts the new operator, so a
\* chain is evaluated left to right.
C5_ChainLeftToRight ==
  [][(/\ error = NONE /\ op # NONE /\ ~overwrite
      /\ lastEvent'.type = "ChooseOperator"
      /\ ~IsErr(evaluate(prev, toNumber(display), op)))
     => (/\ prev' = evaluate(prev, toNumber(display), op)
         /\ display' = fmt(prev')
         /\ op' = lastEvent'.arg
         /\ overwrite' /\ error' = NONE)]_vars

\* 5 + 2 and then the multiply key: 7 is shown and kept, multiply is pending
C5_Witness ==
  /\ lastEvent = Event("ChooseOperator", "*") /\ delivered = 4
  /\ display = <<"7">> /\ prev = Fin(7 * Scale) /\ op = "*" /\ overwrite

\* C6: ChooseOperator right after ChooseOperator evaluates nothing, leaves the
\* accumulator and display as they are and makes the later operator the
\* pending one.
C6_OperatorSubstitution ==
  [][(/\ error = NONE
      /\ lastEvent.type = "ChooseOperator" /\ lastEvent'.type = "ChooseOperator")
     => (/\ prev' = prev /\ display' = display /\ lastOperand' = lastOperand
         /\ op' = lastEvent'.arg /\ error' = NONE)]_vars

\* the preview still ends in the subtract label while multiply is pending:
\* only a multiply key pressed right after the subtract key leaves that
C6_Witness ==
  /\ lastEvent = Event("ChooseOperator", "*") /\ op = "*"
  /\ history = <<"5", " ", "minus">> /\ prev = Fin(5 * Scale) /\ display = <<"5">>

\* C7 as stated: after any commit-class operation in a non-error state
\* (ChooseOperator, Equals, ApplyUnary, InsertConstant, MemoryRecall), the
\* next Digit(d) sets display to exactly d.
CommitClass == {"ChooseOperator", "Equals", "ApplyUnary", "InsertConstant", "MemoryRecall"}
C7_DigitReplacesAfterCommit ==
  [][(error = NONE /\ lastEvent.type \in CommitClass /\ lastEvent'.type = "Digit")
     => display' = <<lastEvent'.arg>>]_vars

\* C7 amended: the same for the commit-class operations that take effect:
\* ChooseOperator, ApplyUnary, InsertConstant, an Equals that had a pending
\* operator or a last operand to repeat (either leaves lastOperand set), and a
\* MemoryRecall of a non-empty memory.
Committed ==
  \/ lastEvent.type \in {"ChooseOperator", "ApplyUnary", "InsertConstant"}
  \/ lastEvent.type = "Equals" /\ lastOperand # null
  \/ lastEvent.type = "MemoryRecall" /\ memory # null
C7_DigitReplacesAfterEffectiveCommit ==
  [][(error = NONE /\ Committed /\ lastEvent'.type = "Digit")
     => (display' = <<lastEvent'.arg>> /\ ~overwrite')]_vars

\* 5, add, 2: the digit after the operator key has replaced the 5
C7_Witness ==
  /\ delivered = 3 /\ lastEvent = Event("Digit", "2")
  /\ prev = Fin(5 * Scale) /\ op = "+" /\ display = <<"2">> /\ ~overwrite

C9_PercentOfAccumulator ==
  [][(/\ error = NONE /\ lastEvent' = Event("ApplyUnary", "percent")
      /\ toNumber(display).k = "fin" /\ prev.k \in {"fin", "null"})
     => (/\ display' = fmt(IF prev # null /\ op # NONE
                           THEN Exact(prev.n * toNumber(display).n, 100 * Scale)
                           ELSE Exact(toNumber(display).n, 100))
         /\ prev' = prev /\ op' = op /\ error' = NONE /\ overwrite')]_vars

\* 5 + 50 %: 2.5 is shown, 5 and the add key are still pending
C9_Witness ==
  /\ lastEvent = Event("ApplyUnary", "percent")
  /\ prev = Fin(5 * Scale) /\ op = "+" /\ display = <<"2", ".", "5">>

\* C10 as stated: after Clear every field has its initial default, memory
\* null, inverse false and angle mode DEG included.
C10_ClearResetsEveryField ==
  [][lastEvent'.type = "Clear" =>
       /\ display' = InitialValue("display") /\ prev' = InitialValue("prev")
       /\ op' = InitialValue("op") /\ lastOperand' = InitialValue("lastOperand")
       /\ error' = InitialValue("error") /\ memory' = InitialValue("memory")
       /\ overwrite' = InitialValue("overwrite") /\ inverse' = InitialValue("inverse")
       /\ angleMode' = InitialValue("angleMode") /\ history' = InitialValue("history")]_vars

\* C10 amended: after Clear display, accumulator, pending operator,
\* lastOperand, error state, overwrite, history and the exponent-entry flag
\* have their initial defaults; memory, angle mode and the inverse toggle keep
\* the values they had.
C10_ClearResetsAllButMemoryAndToggles ==
  [][lastEvent'.type = "Clear" =>
       /\ display' = InitialValue("display") /\ prev' = InitialValue("prev")
       /\ op' = InitialValue("op") /\ lastOperand' = InitialValue("lastOperand")
       /\ error' = InitialValue("error") /\ overwrite' = InitialValue("overwrite")
       /\ history' = InitialValue("history") /\ enteringExp' = InitialValue("enteringExp")
       /\ memory' = memory /\ angleMode' = angleMode /\ inverse' = inverse]_vars

\* Clear has been delivered with a value in memory and the toggles flipped
C10_Witness ==
  /\ lastEvent.type = "Clear" /\ memory = Fin(5 * Scale)
  /\ angleMode = "RAD" /\ inverse /\ display = <<"0">>

\* long typed numbers: a run of one digit, as typed from the initial state
TypedRuns == {[j \in 1..len |-> "5"] : len \in (MAX_LEN - 3)..MAX_LEN}

InitTyping ==
  /\ display \in TypedRuns
  /\ prev = InitialState.prev /\ op = InitialState.op
  /\ lastOperand = InitialState.lastOperand /\ overwrite = InitialState.overwrite
  /\ error = InitialState.error /\ history = InitialState.history
  /\ angleMode = InitialState.angleMode /\ inverse = InitialState.inverse
  /\ memory = InitialState.memory /\ enteringExp = InitialState.enteringExp
  /\ lastEvent = Event("Start", "")
  /\ delivered = 0
  /\ onKey = Render

NextTyping ==
  \/ \E d \in Digits : Digit(d)
  \/ Decimal
  \/ ToggleSign
  \/ Backspace

SpecTyping == InitTyping /\ [][NextTyping]_vars

\* 1 * 2 * ... * i
RECURSIVE Product(_)
Product(i) == IF i <= 1 THEN 1 ELSE i * Product(i - 1)
Text170 == <<"7", ".", "2", "5", "7", "4", "1", "5", "6", "2", "e", "3", "0", "6">>

\* C11: ApplyUnary(fact) on the displayed value x gives "Math domain error"
\* when x is negative or not an integer, "Overflow" when x is an integer
\* above 170, and otherwise no error and the product 1*2*...*x on display
\* (compared digit for digit up to 12!, the largest that fits the checker's
\* integers); 170 gives the finite 7.25741562e306.
C11_FactorialCases ==
  [][(error = NONE /\ lastEvent'.type = "ApplyUnary" /\ lastEvent'.arg = "fact") =>
       LET x == toNumber(display)
       IN IF x.k # "fin" \/ x.n < 0 \/ x.n % Scale # 0 THEN error' = "Math domain error"
          ELSE IF x.n > 170 * Scale THEN error' = "Overflow"
          ELSE /\ error' = NONE
               /\ display' # ErrorText
               /\ (x.n <= 12 * Scale => display' = IntToDigits(Product(x.n \div Scale)))
               /\ (x.n = 170 * Scale => display' = Text170)]_vars
C11_Witness ==
  /\ lastEvent = Event("ApplyUnary", "fact")
  /\ error = NONE
  /\ display = Text170

DomainMessage == "Math domain error"
OverflowMessage == "Overflow"

\* C12: ApplyUnary of sqrt on a negative value, of ln or log10 on a value <= 0,
\* or of asin or acos on a value outside [-1, 1] enters the error state with
\* "Math domain error" and leaves "0", not a result, on display.
C12_DomainErrors ==
  [][(error = NONE /\ lastEvent'.type = "ApplyUnary") =>
       LET x == toNumber(display)
           f == lastEvent'.arg
           negative == x.k \in {"fin", "inf"} /\ x.n < 0
           zero == x.k = "fin" /\ x.n = 0
           beyond == (x.k = "fin" /\ Abs(x.n) > Scale) \/ x.k = "inf"
       IN (\/ f = "sqrt" /\ negative
           \/ f \in {"ln", "log10"} /\ (negative \/ zero)
           \/ f \in {"asin", "acos"} /\ beyond)
          => (error' = DomainMessage /\ display' = <<"0">>)]_vars
C12_Witness ==
  /\ lastEvent \in {Event("ApplyUnary", "asin"), Event("ApplyUnary", "acos")}
  /\ error = DomainMessage
  /\ display = <<"0">>

\* C13: every transition into the error state comes from ChooseOperator,
\* Equals or ApplyUnary and ends with display "0", accumulator null, pending
\* operator null, overwrite true and the fixed message of its kind: a pending
\* division gives "Cannot divide by 0" and a pending power "Overflow"; 1/x
\* gives "Cannot divide by 0", x! "Overflow" on a whole number above 170 and
\* "Math domain error" otherwise, every other function "Math domain error".
C13_ErrorEntry ==
  [][(error = NONE /\ error' # NONE) =>
       /\ display' = <<"0">> /\ prev' = null /\ op' = NONE /\ overwrite'
       /\ lastEvent'.type \in {"ChooseOperator", "Equals", "ApplyUnary"}
       /\ (lastEvent'.type \in {"ChooseOperator", "Equals"} =>
             \/ op = "/" /\ error' = DivideMessage
             \/ op = "^" /\ error' = OverflowMessage)
       /\ (lastEvent'.type = "ApplyUnary" =>
             error' = CASE lastEvent'.arg = "recip" -> DivideMessage
                        [] /\ lastEvent'.arg = "fact"
                           /\ toNumber(display).k = "fin"
                           /\ toNumber(display).n % Scale = 0
                           /\ toNumber(display).n > 170 * Scale -> OverflowMessage
                        [] OTHER -> DomainMessage)]_vars
C13_Witness ==
  /\ error = OverflowMessage
  /\ lastEvent.type = "ChooseOperator"
  /\ display = <<"0">> /\ prev = null /\ op = NONE /\ overwrite

\* C14: MemoryStore sets memory to the displayed value, MemoryAdd and
\* MemorySubtract add or subtract the displayed value with empty memory as 0,
\* MemoryClear empties it, MemoryRecall writes the stored value to display
\* with overwrite true and changes nothing when memory is empty; no memory
\* event changes accumulator, pending operator or lastOperand.
MemoryEvents == {"MemoryStore", "MemoryAdd", "MemorySubtract", "MemoryClear", "MemoryRecall"}
C14_MemoryContract ==
  [][LET t == lastEvent'.type
         x == toNumber(display)
         m == IF memory = null THEN Fin(0) ELSE memory
     IN /\ (t = "MemoryStore" => memory' = x)
        /\ (t = "MemoryAdd" => memory' = Add(m, x))
        /\ (t = "MemorySubtract" => memory' = Add(m, Neg(x)))
        /\ (t = "MemoryClear" => memory' = null)
        /\ (t = "MemoryRecall" =>
              IF memory = null THEN UNCHANGED state
              ELSE display' = fmt(memory) /\ overwrite' /\ memory' = memory)
        /\ (t \in MemoryEvents => UNCHANGED <<prev, op, lastOperand>>)]_vars
C14_Witness ==
  /\ lastEvent.type = "MemorySubtract"
  /\ delivered = 2
  /\ display = <<"5">>
  /\ memory = Fin(-5 * Scale)

\* C15: formatting is idempotent through the numeric parser: the text
\* fmt(x) that a unary function left on display is kept by
\* fmt(toNumber(...)).
C15_FormatIdempotent ==
  (error = NONE /\ lastEvent.type = "ApplyUnary") => fmt(toNumber(display)) = display

\* C16: in every reachable state display holds at most one decimal point.
CountOf(s, ch) == Cardinality({i \in 1..Len(s) : s[i] = ch})
C16_OneDecimalPoint == CountOf(display, ".") <= 1
C16_Witness ==
  /\ lastEvent.type = "Decimal"
  /\ delivered = 4
  /\ display = <<"1", ".", "E", "5">>

\* C17: in every reachable state display begins with "-" only if its numeric
\* value is strictly negative.
C17_MinusOnlyIfNegative ==
  Head(display) = "-" => LET x == toNumber(display) IN x.k # "nan" /\ ~IsZero(x)

\* C18 as stated: in every state between two events, a null pending operator
\* means a null accumulator.
C18_NoAccumulatorWithoutOperator == op = NONE => prev = null

\* C18 amended: an Equals that evaluates a pending operator without error
\* leaves its result in the accumulator and clears only the pending operator;
\* the accumulator is non-null without a pending operator only from such an
\* Equals on, until the next ChooseOperator, error or Clear.
C18_AccumulatorKeptAfterEquals ==
  [][/\ (lastEvent'.type = "Equals" /\ error = NONE /\ op # NONE /\ error' = NONE)
          => (op' = NONE /\ prev' # null /\ fmt(prev') = display')
     /\ (op' = NONE /\ prev' # null)
          => ((op = NONE /\ prev' = prev) \/ (lastEvent'.type = "Equals" /\ op # NONE))]_vars
C18_Witness ==
  /\ lastEvent.type = "Equals"
  /\ error = NONE /\ op = NONE /\ prev # null
  /\ fmt(prev) = display

\* C19: with overwrite false, Digit(d) is ignored exactly when display, not
\* counting a leading minus sign, already holds MAX_LEN characters; otherwise
\* it replaces a lone "0" with d or appends d.
SansSign(s) == IF Head(s) = "-" THEN Tail(s) ELSE s
C19_DigitLimitSansSign ==
  [][(error = NONE /\ ~overwrite /\ lastEvent'.type = "Digit") =>
       display' = IF Len(SansSign(display)) >= MAX_LEN THEN display
                  ELSE IF display = <<"0">> THEN <<lastEvent'.arg>>
                  ELSE display \o <<lastEvent'.arg>>]_vars

\* C20 as stated: overwrite turns from true to false only when a Digit or
\* Decimal event is consumed (or on Clear, which resets the state); ToggleSign,
\* Backspace and PressExponent never turn it false.
C20_OverwriteClearedByDigitOrDecimal ==
  [][(overwrite /\ ~overwrite') => lastEvent'.type \in {"Digit", "Decimal", "Clear"}]_vars

\* C20 amended: overwrite turns from true to false only when a Digit, Decimal
\* or PressExponent event is consumed, or on Clear; a PressExponent consumed
\* with overwrite true starts the entry "1E"; ToggleSign and Backspace never
\* turn overwrite false.
C20_OverwriteClearedByNewEntry ==
  [][/\ (overwrite /\ ~overwrite')
          => lastEvent'.type \in {"Digit", "Decimal", "PressExponent", "Clear"}
     /\ (overwrite /\ error = NONE /\ lastEvent'.type = "PressExponent" /\ ~Includes(display, "E"))
          => (~overwrite' /\ display' = <<"1", "E">>)]_vars
C20_Witness ==
  /\ lastEvent.type = "PressExponent"
  /\ ~overwrite /\ op # NONE
  /\ display = <<"1", "E">>

\* C21: the numeric parser never gives NaN for the text on display (a text
\* that is not a complete numeral, such as "1E", reads as 0), so no operation
\* takes NaN as an operand in any reachable state.
C21_ParserNeverNaN == toNumber(display).k # "nan"

\* C22: when an operator is pending and the operand on display was produced
\* by ApplyUnary, InsertConstant or MemoryRecall, the next ChooseOperator
\* evaluates accumulator, pending operator, operand and makes the new operator
\* pending, as it does for a typed operand.
C22_CommittedOperandEvaluated ==
  [][LET r == evaluate(prev, toNumber(display), op)
     IN (/\ error = NONE /\ op # NONE /\ prev # null
         /\ \/ lastEvent.type \in {"ApplyUnary", "InsertConstant"}
            \/ lastEvent.type = "MemoryRecall" /\ memory # null
         /\ ~Outside(r)
         /\ lastEvent'.type = "ChooseOperator")
        => IF IsErr(r) THEN error' = errorMessage(r.k)
           ELSE prev' = r /\ display' = fmt(r) /\ op' = lastEvent'.arg]_vars

\* C23: the formatter's fallback text "Error" is never on display while the
\* error state is null: a non-finite result always enters the error state.
C23_NoErrorTextWithoutErrorState == error = NONE => display # ErrorText

\* C24: a key has the effect of the button of the same event on the current
\* state, also after an event that changed overwrite and none of display,
\* accumulator, pending operator, inverse, angle mode and error.
C24_KeySameAsButton ==
  [][(lastEvent'.type = "Key" /\ Modelled(keyDown(Render, Render, lastEvent'.arg)))
     => Render' = keyDown(Render, Render, lastEvent'.arg)]_vars

====
